---- MODULE Spec2Model ----
(***************************************************************************)
(* The crawler's fetch-and-extract pipeline as a state machine.            *)
(*                                                                         *)
(* One fetcher object (HttpFetcher or BrowserFetcher, chosen at            *)
(* construction) with its scoped lifecycle (__aenter__ / __aexit__), its   *)
(* asyncio.Semaphore, and a burst of concurrent calls.  A call is either a *)
(* direct fetch_text call or a MediumExtractor.extract call, which invokes *)
(* fetch_text and then parses the response.                                *)
(*                                                                         *)
(* Every `await` of the source is a point where other tasks may run, so    *)
(* each action below is the code between two awaits of one task.  An       *)
(* awaited call into aiohttp / Playwright may return or raise; both        *)
(* outcomes are enumerated.                                                *)
(*                                                                         *)
(* Text is a sequence of one-character strings; an HTML element is the     *)
(* sequence of its text nodes in document order.                           *)
(***************************************************************************)
EXTENDS Integers, Sequences, FiniteSets, TLC

(* ------------------------------ bounds -------------------------------- *)

\* Number of calls in the burst.
NumCalls == 2
\* max_concurrency the fetcher is constructed with (the permit pool size N).
MaxConcurrency == 1
\* Characters in the text nodes of a page's headings and title.
MaxTitleChars == 2
\* Characters in the text nodes of a page's paragraphs.
MaxParaChars == 4
\* Length of a url's host, in delimiters and runs of letters.
MaxHostLen == 4

Calls == 1..NumCalls

(* ------------------------- program constants -------------------------- *)

\* stop_after_attempt(3) of HttpFetcher.fetch_text
HttpAttempts == 3
\* stop_after_attempt(2) of BrowserFetcher.fetch_text
BrowserAttempts == 2
\* `if resp.status >= 400` of MediumExtractor.extract
ErrorStatus == 400
\* wait_exponential(multiplier=0.6, min=0.6, max=6) of HttpFetcher.fetch_text, in
\* tenths of a second
HttpWaitMultiplier == 6
HttpWaitMin == 6
HttpWaitMax == 60
\* wait_exponential(multiplier=1, min=1, max=10) of BrowserFetcher.fetch_text, in
\* tenths of a second
BrowserWaitMultiplier == 10
BrowserWaitMin == 10
BrowserWaitMax == 100
\* exp_base of tenacity's wait_exponential
ExpBase == 2

VARIABLES
    kind,        \* "http" | "browser": the class of the fetcher object
    life,        \* position of the task that runs __aenter__ / __aexit__
    session,     \* HttpFetcher._session is not None
    playwright,  \* BrowserFetcher._playwright is not None
    browser,     \* BrowserFetcher._browser is not None
    context,     \* BrowserFetcher._context is not None
    live,        \* resources acquired and not yet released
    closeCalls,  \* the close()/stop() calls __aexit__ has made, in order
    sem,         \* asyncio.Semaphore._value: the free permits
    waiters,     \* asyncio.Semaphore._waiters: calls blocked in acquire, FIFO
    pages,       \* calls whose page is open in the shared context
    pc,          \* position of each call
    url,         \* the url / link argument
    calledIn,    \* lifecycle state in which the call began to run
    attempts,    \* attempts tenacity has started for the current fetch_text call
    requests,    \* session.get / context.new_page operations issued by the call
    fetchCalls,  \* fetch_text invocations made on behalf of the call
    errs,        \* the exception of every failed attempt, oldest first
    slept,       \* tenacity's sleeps between the attempts, in tenths of a second
    out,         \* outcome of the attempt in progress
    result,      \* what fetch_text returned or raised
    parsed,      \* BeautifulSoup was run on the response
    doc,         \* what extract returned or raised
    runPc,       \* position of the task that runs run(url)
    runUrl,      \* the url argument of run / pick_extractor
    parts,       \* the components runUrl was written from
    extractor,   \* what pick_extractor returned or raised
    pending,     \* the exception that left the body of run's `async with`
    raised,      \* the exception run raised to its caller
    emitted      \* where run put the document: "file", "stdout"

vars == <<kind, life, session, playwright, browser, context, live, closeCalls, sem,
          waiters, pages, pc, url, calledIn, attempts, requests, fetchCalls, errs, slept,
          out, result, parsed, doc, runPc, runUrl, parts, extractor, pending, raised,
          emitted>>

runVars == <<runPc, runUrl, parts, extractor, pending, raised, emitted>>
lifeVars == <<life, session, playwright, browser, context, live, closeCalls>>
callVars == <<pc, url, calledIn, attempts, requests, fetchCalls, errs, slept,
              out, result, parsed, doc>>

(* ------------------------------ values -------------------------------- *)

\* The exceptions the model distinguishes.
\*   NotStarted      RuntimeError of _require_session / _require_context
\*   ClientError     aiohttp.ClientError raised by the connection
\*   InvalidURL      aiohttp.InvalidURL, the ClientError subclass session.get
\*                   raises for a malformed url
\*   TimeoutError    asyncio.TimeoutError / Playwright's navigation timeout
\*   SessionClosed   RuntimeError of a request on a closed ClientSession
\*   PlaywrightError playwright Error (navigation or capture failure)
\*   TargetClosed    playwright error of an operation on a closed context/page
\*   NoResponse      RuntimeError "Failed to load page" (goto returned None)
ClientErrors == {"ClientError", "InvalidURL"}
TimeoutErrors == {"TimeoutError"}

\* A url is text: the sequence of its delimiter characters and of the runs of
\* letters and digits between them.
GoodUrl == <<"https", ":", "/", "/", "medium", ".", "com", "/", "a">>
BadUrl == <<"http", "/", "/", "malformed">>
RedirectedUrl == <<"https", ":", "/", "/", "medium", ".", "com", "/", "b">>
Urls == {GoodUrl, BadUrl}

Whitespace == {" ", "\n"}
Chars == {"a"} \cup Whitespace

EmptyPage == [h1s |-> <<>>, title |-> <<>>, article |-> FALSE, ps |-> <<>>]

\* An attempt's outcome: nothing yet, a response envelope, or an exception.
NoOutcome == [t |-> "none", err |-> "", status |-> 0, url |-> <<>>, body |-> EmptyPage]
Resp(u, s, b) == [t |-> "resp", err |-> "", status |-> s, url |-> u, body |-> b]
Err(e) == [t |-> "err", err |-> e, status |-> 0, url |-> <<>>, body |-> EmptyPage]

\* What extract gave its caller: nothing yet, a document, or an exception.
NoDoc == [t |-> "none", err |-> "", status |-> 0, url |-> <<>>, title |-> <<>>, text |-> <<>>]
Raised(e, s, u) == [t |-> "raised", err |-> e, status |-> s, url |-> u, title |-> <<>>, text |-> <<>>]
ExtractedDocument(u, ti, tx, s) ==
    [t |-> "doc", err |-> "", status |-> s, url |-> u, title |-> ti, text |-> tx]

(* --------------------------- HTML text model -------------------------- *)

\* str.strip(): leading and trailing whitespace removed, inner whitespace kept.
RECURSIVE LStrip(_)
LStrip(s) ==
    IF s = <<>> THEN <<>>
    ELSE IF Head(s) \in Whitespace THEN LStrip(Tail(s)) ELSE s

RECURSIVE RStrip(_)
RStrip(s) ==
    IF s = <<>> THEN <<>>
    ELSE IF s[Len(s)] \in Whitespace THEN RStrip(SubSeq(s, 1, Len(s) - 1)) ELSE s

Strip(s) == RStrip(LStrip(s))

\* Tag._all_strings(strip=True): each text node stripped, the empty ones dropped.
RECURSIVE StrippedStrings(_)
StrippedStrings(nodes) ==
    IF nodes = <<>> THEN <<>>
    ELSE LET s == Strip(Head(nodes))
         IN  IF s = <<>> THEN StrippedStrings(Tail(nodes))
             ELSE <<s>> \o StrippedStrings(Tail(nodes))

\* separator.join(strings)
RECURSIVE Join(_, _)
Join(strings, sep) ==
    IF strings = <<>> THEN <<>>
    ELSE IF Len(strings) = 1 THEN Head(strings)
    ELSE Head(strings) \o sep \o Join(Tail(strings), sep)

\* Tag.get_text(separator, strip=True)
GetText(nodes, sep) == Join(StrippedStrings(nodes), sep)

Placeholder == <<"(untitled)">>

\* title = title_tag text if soup.find("h1") has text, else the <title> text
FindTitle(page) ==
    LET title_tag == page.h1s
    IN  IF title_tag # <<>> /\ GetText(title_tag[1], <<>>) # <<>>
        THEN GetText(title_tag[1], <<>>)
        ELSE Strip(IF page.title # <<>> THEN GetText(page.title[1], <<>>) ELSE <<>>)

\* title=title or "(untitled)"
TitleOrPlaceholderMutant(title) == title
TitleOrPlaceholder(title) == IF title = <<>> THEN Placeholder ELSE title

\* [p.get_text(" ", strip=True) for p in article.find_all("p")] when the page has
\* an <article>, else the same over soup.find_all("p")
RECURSIVE ParagraphTexts(_, _)
ParagraphTexts(ps, inArticleOnly) ==
    IF ps = <<>> THEN <<>>
    ELSE IF inArticleOnly /\ ~Head(ps).inArticle
         THEN ParagraphTexts(Tail(ps), inArticleOnly)
         ELSE <<GetText(Head(ps).nodes, <<" ">>)>> \o ParagraphTexts(Tail(ps), inArticleOnly)

\* paragraphs = [p for p in paragraphs if p]
NonEmpty(p) == p # <<>>
DropEmpty(paragraphs) == SelectSeq(paragraphs, NonEmpty)

\* text = "\n".join(paragraphs)
FindText(page) == Join(DropEmpty(ParagraphTexts(page.ps, page.article)), <<"\n">>)

\* `if resp.status >= 400`
IsErrorStatusMutant(status) == status > ErrorStatus
IsErrorStatus(status) == status >= ErrorStatus

\* The part of MediumExtractor.extract after fetch_text returned resp.
ExtractFrom(resp) ==
    IF IsErrorStatus(resp.status)
    THEN [parsed |-> FALSE, doc |-> Raised("UpstreamError", resp.status, resp.url)]
    ELSE [parsed |-> TRUE,
          doc |-> ExtractedDocument(resp.url, TitleOrPlaceholder(FindTitle(resp.body)),
                                    FindText(resp.body), resp.status)]

(* ------------------------------- routing ------------------------------ *)

\* The components a url is written from (RFC 3986): scheme, then "//" and the
\* authority (userinfo "@" host ":" port) when it has one, then path, query and
\* fragment.
NoParts ==
    [scheme |-> <<>>, authority |-> FALSE, userinfo |-> <<>>, host |-> <<>>,
     port |-> <<>>, path |-> <<>>, query |-> <<>>, fragment |-> <<>>]

\* The url string of the components p.
UrlString(p) ==
    (IF p.scheme = <<>> THEN <<>> ELSE p.scheme \o <<":">>)
    \o (IF p.authority
        THEN <<"/", "/">>
             \o (IF p.userinfo = <<>> THEN <<>> ELSE p.userinfo \o <<"@">>)
             \o p.host
             \o (IF p.port = <<>> THEN <<>> ELSE <<":">> \o p.port)
        ELSE <<>>)
    \o p.path
    \o (IF p.query = <<>> THEN <<>> ELSE <<"?">> \o p.query)
    \o (IF p.fragment = <<>> THEN <<>> ELSE <<"#">> \o p.fragment)

\* str.find over a set of characters: the first index of s holding one of them,
\* 0 when there is none.
Find(s, chars) ==
    IF \E i \in 1..Len(s) : s[i] \in chars
    THEN CHOOSE i \in 1..Len(s) : s[i] \in chars /\ \A j \in 1..(i - 1) : s[j] \notin chars
    ELSE 0

\* str.rfind: the last index of s holding the character, 0 when there is none.
RFind(s, char) ==
    IF \E i \in 1..Len(s) : s[i] = char
    THEN CHOOSE i \in 1..Len(s) : s[i] = char /\ \A j \in (i + 1)..Len(s) : s[j] # char
    ELSE 0

\* Characters that cannot be part of a scheme.
Delimiters == {":", "/", "?", "#", "@"}

\* urlsplit: the url with its scheme removed.  The text before the first ":" is
\* a scheme when it is not empty, starts with a letter and holds scheme
\* characters only.
AfterScheme(u) ==
    LET i == Find(u, {":"})
    IN  IF i > 1 /\ u[1] # "." /\ \A j \in 1..(i - 1) : u[j] \notin Delimiters
        THEN SubSeq(u, i + 1, Len(u))
        ELSE u

\* urlsplit: the netloc is what follows a leading "//", up to the first of "/",
\* "?" and "#".
Netloc(u) ==
    LET r == AfterScheme(u)
    IN  IF Len(r) >= 2 /\ r[1] = "/" /\ r[2] = "/"
        THEN LET rest == SubSeq(r, 3, Len(r))
                 end == Find(rest, {"/", "?", "#"})
             IN  IF end = 0 THEN rest ELSE SubSeq(rest, 1, end - 1)
        ELSE <<>>

\* str.lower()
LowerChar(ch) == IF ch = "Medium" THEN "medium" ELSE ch
Lower(s) == [i \in 1..Len(s) |-> LowerChar(s[i])]

\* urlparse(url).hostname: the netloc after its last "@", up to the first ":",
\* lowercased; None (here the empty text) when that is empty.
Hostname(u) ==
    LET netloc == Netloc(u)
        hostinfo == SubSeq(netloc, RFind(netloc, "@") + 1, Len(netloc))
        colon == Find(hostinfo, {":"})
    IN  Lower(IF colon = 0 THEN hostinfo ELSE SubSeq(hostinfo, 1, colon - 1))

\* `needle in host`
Contains(host, needle) ==
    \E i \in 0..(Len(host) - Len(needle)) : SubSeq(host, i + 1, i + Len(needle)) = needle

\* What pick_extractor gave: nothing yet, an extractor, or the ValueError
\* "No extractor configured for host: {host}".
NoExtractor == [t |-> "none", class |-> "", host |-> <<>>]
Extractor(class) == [t |-> "extractor", class |-> class, host |-> <<>>]
UnroutableHost(host) == [t |-> "raised", class |-> "", host |-> host]

\* The routing table of pick_extractor, in the order it is tried.
RoutingTable ==
    << [needle |-> <<"medium", ".", "com">>, class |-> "MediumExtractor"],
       [needle |-> <<"genesysoftwares", ".", "com">>, class |-> "MediumExtractor"] >>

\* pick_extractor(url, fetcher)
pick_extractorDefault(u) ==
    LET host == Lower(Hostname(u))
    IN  IF Contains(host, RoutingTable[1].needle) THEN Extractor(RoutingTable[1].class)
        ELSE Extractor(RoutingTable[2].class)
pick_extractorMutant(u) ==
    IF Contains(Lower(u), RoutingTable[1].needle) THEN Extractor(RoutingTable[1].class)
    ELSE IF Contains(Lower(u), RoutingTable[2].needle) THEN Extractor(RoutingTable[2].class)
    ELSE UnroutableHost(Lower(Hostname(u)))
pick_extractor(u) ==
    LET host == Lower(Hostname(u))
    IN  IF Contains(host, RoutingTable[1].needle) THEN Extractor(RoutingTable[1].class)
        ELSE IF Contains(host, RoutingTable[2].needle) THEN Extractor(RoutingTable[2].class)
        ELSE UnroutableHost(host)

(* ------------------------------ fetchers ------------------------------ *)

\* stop=stop_after_attempt(n)
MaxAttempts(k) == IF k = "http" THEN HttpAttempts ELSE BrowserAttempts

Min(a, b) == IF a <= b THEN a ELSE b
Max(a, b) == IF a >= b THEN a ELSE b

\* tenacity.wait_exponential.__call__ after the attempt_number-th attempt:
\* max(max(0, min), min(multiplier * exp_base ** (attempt_number - 1), max))
wait_exponentialMutant(multiplier, min, max, attempt_number) ==
    Max(Max(0, min), Min(multiplier * ExpBase ^ attempt_number, max))
wait_exponential(multiplier, min, max, attempt_number) ==
    Max(Max(0, min), Min(multiplier * ExpBase ^ (attempt_number - 1), max))

\* wait=wait_exponential(...) of each fetcher
Wait(k, attempt_number) ==
    IF k = "http"
    THEN wait_exponential(HttpWaitMultiplier, HttpWaitMin, HttpWaitMax, attempt_number)
    ELSE wait_exponential(BrowserWaitMultiplier, BrowserWaitMin, BrowserWaitMax,
                          attempt_number)

\* retry=retry_if_exception_type((aiohttp.ClientError, asyncio.TimeoutError)) for
\* HttpFetcher, retry=retry_if_exception_type(Exception) for BrowserFetcher
Retryable(k, e) ==
    IF k = "http" THEN e \in ClientErrors \cup TimeoutErrors ELSE TRUE

\* reraise=True: when the attempts are exhausted the last attempt's own exception
\* is raised (reraise=False would raise tenacity.RetryError)
ReraiseMutant(e) == "RetryError"
Reraise(e) == e

\* _require_session / _require_context: the handle the fetcher needs is set
HandleSet == IF kind = "http" THEN session ELSE context

\* asyncio.Semaphore.locked(): no permit is free
LockedMutant == FALSE
Locked == sem <= 0

\* How fetch_text is called: BrowserFetcher.fetch_text by MediumExtractor.extract
\* (its only caller, bound in main.py), HttpFetcher.fetch_text directly.
Via == IF kind = "browser" THEN "extract" ELSE "fetch"

\* The lifecycle as a call sees it: never started, started, torn down (__aexit__
\* returned), or in between.
LifePhase ==
    IF life \in {"new", "started", "closed"} THEN life ELSE "between"

\* The first await an attempt makes once it holds a permit.
FirstStep == IF kind = "http" THEN "get" ELSE "new_page"

\* Positions at which a call holds a permit (inside `async with self._sem`).
Holding == {"get", "read", "new_page", "goto", "content", "close_page", "release"}

\* run(url) is not being executed: the fetcher is driven by its own callers.
NoRun ==
    /\ runPc = "none"
    /\ runUrl = <<>>
    /\ parts = NoParts
    /\ extractor = NoExtractor
    /\ pending = NoDoc
    /\ raised = NoDoc
    /\ emitted = {}

Init ==
    /\ kind \in {"http", "browser"}
    /\ life = "new"
    /\ session = FALSE
    /\ playwright = FALSE
    /\ browser = FALSE
    /\ context = FALSE
    /\ live = {}
    /\ closeCalls = <<>>
    /\ sem = MaxConcurrency
    /\ waiters = <<>>
    /\ pages = {}
    /\ pc = [c \in Calls |-> "idle"]
    /\ url = [c \in Calls |-> GoodUrl]
    /\ calledIn = [c \in Calls |-> "none"]
    /\ attempts = [c \in Calls |-> 0]
    /\ requests = [c \in Calls |-> 0]
    /\ fetchCalls = [c \in Calls |-> 0]
    /\ errs = [c \in Calls |-> <<>>]
    /\ slept = [c \in Calls |-> <<>>]
    /\ out = [c \in Calls |-> NoOutcome]
    /\ result = [c \in Calls |-> NoOutcome]
    /\ parsed = [c \in Calls |-> FALSE]
    /\ doc = [c \in Calls |-> NoDoc]
    /\ NoRun

(* ----------------------- lifecycle: __aenter__ ------------------------ *)

\* HttpFetcher.__aenter__: the session is constructed, no await
HttpEnter ==
    /\ kind = "http" /\ life = "new"
    /\ session' = TRUE
    /\ live' = live \cup {"session"}
    /\ life' = "started"
    /\ UNCHANGED <<kind, runVars, closeCalls, playwright, browser, context, sem, waiters, pages, callVars>>

\* self._playwright = await async_playwright().start()
EnterPlaywright ==
    /\ kind = "browser" /\ life = "new"
    /\ \/ /\ playwright' = TRUE
          /\ live' = live \cup {"playwright"}
          /\ life' = "launch"
       \/ /\ life' = "enter_failed"
          /\ UNCHANGED <<playwright, live>>
    /\ UNCHANGED <<kind, runVars, closeCalls, session, browser, context, sem, waiters, pages, callVars>>

\* self._browser = await self._playwright.chromium.launch(...)
EnterLaunch ==
    /\ life = "launch"
    /\ \/ /\ browser' = TRUE
          /\ live' = live \cup {"browser"}
          /\ life' = "new_context"
       \/ /\ life' = "enter_failed"
          /\ UNCHANGED <<browser, live>>
    /\ UNCHANGED <<kind, runVars, closeCalls, session, playwright, context, sem, waiters, pages, callVars>>

\* self._context = await self._browser.new_context(...); return self
EnterNewContext ==
    /\ life = "new_context"
    /\ \/ /\ context' = TRUE
          /\ live' = live \cup {"context"}
          /\ life' = "started"
       \/ /\ life' = "enter_failed"
          /\ UNCHANGED <<context, live>>
    /\ UNCHANGED <<kind, runVars, closeCalls, session, playwright, browser, sem, waiters, pages, callVars>>

(* ------------------------ lifecycle: __aexit__ ------------------------ *)

\* __aexit__ is entered: by the `async with` block ending, or by an explicit
\* teardown of a fetcher that was never started or whose start failed.
ExitBegin ==
    /\ life \in {"new", "started", "enter_failed"}
    /\ life' = IF kind = "http" THEN "exit_session" ELSE "exit_context"
    /\ UNCHANGED <<kind, runVars, closeCalls, session, playwright, browser, context, live, sem, waiters,
                   pages, callVars>>

\* if self._session: await self._session.close()
ExitSessionClose ==
    /\ life = "exit_session"
    /\ closeCalls' = IF session THEN Append(closeCalls, "session") ELSE closeCalls
    /\ IF session
       THEN \/ /\ live' = live \ {"session"}
               /\ life' = "exit_session_set"
            \/ /\ life' = "exit_failed"
               /\ UNCHANGED live
       ELSE /\ life' = "closed"
            /\ UNCHANGED live
    /\ UNCHANGED <<kind, runVars, session, playwright, browser, context, sem, waiters, pages,
                   callVars>>

\* self._session = None
ExitSessionSet ==
    /\ life = "exit_session_set"
    /\ session' = FALSE
    /\ life' = "closed"
    /\ UNCHANGED <<kind, runVars, closeCalls, playwright, browser, context, live, sem, waiters, pages,
                   callVars>>

\* if self._context: await self._context.close()
\* Closing the context closes every page open in it.
ExitContextClose ==
    /\ life = "exit_context"
    /\ closeCalls' = IF context THEN Append(closeCalls, "context") ELSE closeCalls
    /\ IF context
       THEN \/ /\ live' = live \ {"context"}
               /\ pages' = {}
               /\ life' = "exit_context_set"
            \/ /\ life' = "exit_failed"
               /\ UNCHANGED <<live, pages>>
       ELSE /\ life' = "exit_browser"
            /\ UNCHANGED <<live, pages>>
    /\ UNCHANGED <<kind, runVars, session, playwright, browser, context, sem, waiters, callVars>>

\* self._context = None
ExitContextSet ==
    /\ life = "exit_context_set"
    /\ context' = FALSE
    /\ life' = "exit_browser"
    /\ UNCHANGED <<kind, runVars, closeCalls, session, playwright, browser, live, sem, waiters, pages,
                   callVars>>

\* if self._browser: await self._browser.close()
ExitBrowserClose ==
    /\ life = "exit_browser"
    /\ closeCalls' = IF browser THEN Append(closeCalls, "browser") ELSE closeCalls
    /\ IF browser
       THEN \/ /\ live' = live \ {"browser"}
               /\ life' = "exit_browser_set"
            \/ /\ life' = "exit_failed"
               /\ UNCHANGED live
       ELSE /\ life' = "exit_playwright"
            /\ UNCHANGED live
    /\ UNCHANGED <<kind, runVars, session, playwright, browser, context, sem, waiters, pages,
                   callVars>>

\* self._browser = None
ExitBrowserSet ==
    /\ life = "exit_browser_set"
    /\ browser' = FALSE
    /\ life' = "exit_playwright"
    /\ UNCHANGED <<kind, runVars, closeCalls, session, playwright, context, live, sem, waiters, pages,
                   callVars>>

\* if self._playwright: await self._playwright.stop()
ExitPlaywrightStop ==
    /\ life = "exit_playwright"
    /\ closeCalls' = IF playwright THEN Append(closeCalls, "playwright") ELSE closeCalls
    /\ IF playwright
       THEN \/ /\ live' = live \ {"playwright"}
               /\ life' = "exit_playwright_set"
            \/ /\ life' = "exit_failed"
               /\ UNCHANGED live
       ELSE /\ life' = "closed"
            /\ UNCHANGED live
    /\ UNCHANGED <<kind, runVars, session, playwright, browser, context, sem, waiters, pages,
                   callVars>>

\* self._playwright = None
ExitPlaywrightSet ==
    /\ life = "exit_playwright_set"
    /\ playwright' = FALSE
    /\ life' = "closed"
    /\ UNCHANGED <<kind, runVars, closeCalls, session, browser, context, live, sem, waiters, pages,
                   callVars>>

(* --------------------------- fetch_text calls -------------------------- *)

\* What the transport may answer in the concurrent specification.
FetchStatuses == {200, 404}
SamplePage ==
    [h1s |-> << << <<"a">> >> >>, title |-> <<>>, article |-> TRUE,
     ps |-> << [inArticle |-> TRUE, nodes |-> << <<"a">> >>] >>]
FetchBodies == {SamplePage}
Responses == {Resp(RedirectedUrl, s, EmptyPage) : s \in FetchStatuses}

\* tenacity after an attempt (the n-th) ended with outcome o: return the response,
\* sleep and retry, or raise.
Finish(c, o, n) ==
    IF o.t = "resp"
    THEN /\ result' = [result EXCEPT ![c] = o]
         /\ pc' = [pc EXCEPT ![c] = IF Via = "extract" THEN "extract" ELSE "done"]
         /\ UNCHANGED <<errs, slept, doc>>
    ELSE /\ errs' = [errs EXCEPT ![c] = Append(@, o.err)]
         /\ IF Retryable(kind, o.err) /\ n < MaxAttempts(kind)
            THEN /\ pc' = [pc EXCEPT ![c] = "backoff"]
                 /\ slept' = [slept EXCEPT ![c] = Append(@, Wait(kind, n))]
                 /\ UNCHANGED <<result, doc>>
            ELSE LET e == IF Retryable(kind, o.err) THEN Reraise(o.err) ELSE o.err
                 IN  /\ result' = [result EXCEPT ![c] = Err(e)]
                     /\ UNCHANGED slept
                     /\ pc' = [pc EXCEPT ![c] = "done"]
                     /\ doc' = [doc EXCEPT ![c] =
                                   IF Via = "extract" THEN Raised(e, 0, <<>>) ELSE @]

\* Leaving `async with self._sem` with outcome o: the permit goes back, then
\* tenacity decides.
ReleaseAndFinishMutant(c, o) ==
    /\ sem' = IF o.t = "resp" THEN sem + 1 ELSE sem
    /\ out' = [out EXCEPT ![c] = NoOutcome]
    /\ Finish(c, o, attempts[c])
ReleaseAndFinish(c, o) ==
    /\ sem' = sem + 1
    /\ out' = [out EXCEPT ![c] = NoOutcome]
    /\ Finish(c, o, attempts[c])

\* A caller issues fetch_text(url): directly, or by calling extract(link), whose
\* first statement is `resp = await self._fetcher.fetch_text(link)`.
Issue(c) ==
    /\ pc[c] = "idle"
    /\ \E u \in Urls : url' = [url EXCEPT ![c] = u]
    /\ fetchCalls' = [fetchCalls EXCEPT ![c] = @ + 1]
    /\ pc' = [pc EXCEPT ![c] = "attempt"]
    /\ UNCHANGED <<kind, runVars, lifeVars, sem, waiters, pages, calledIn, attempts, requests, errs, slept, out,
                   result, parsed, doc>>

\* An attempt starts: the handle check, then `async with self._sem`, which takes
\* a free permit at once and otherwise queues the call.
AttemptBegin(c) ==
    /\ pc[c] = "attempt"
    /\ attempts' = [attempts EXCEPT ![c] = @ + 1]
    /\ calledIn' = [calledIn EXCEPT ![c] = IF @ = "none" THEN LifePhase ELSE @]
    /\ IF ~HandleSet
       THEN /\ Finish(c, Err("NotStarted"), attempts[c] + 1)
            /\ UNCHANGED <<sem, waiters>>
       ELSE IF Locked
       THEN /\ waiters' = Append(waiters, c)
            /\ pc' = [pc EXCEPT ![c] = "wait_sem"]
            /\ UNCHANGED <<sem, errs, slept, result, doc>>
       ELSE /\ sem' = sem - 1
            /\ pc' = [pc EXCEPT ![c] = FirstStep]
            /\ UNCHANGED <<waiters, errs, slept, result, doc>>
    /\ UNCHANGED <<kind, runVars, lifeVars, pages, url, requests, fetchCalls, out,
                   parsed>>

\* The oldest waiter of the semaphore takes a freed permit.
AcquireMutant(c) ==
    /\ pc[c] = "wait_sem"
    /\ waiters # <<>> /\ Head(waiters) = c
    /\ ~Locked
    /\ waiters' = Tail(waiters)
    /\ pc' = [pc EXCEPT ![c] = FirstStep]
    /\ UNCHANGED <<kind, runVars, lifeVars, sem, pages, url, calledIn, attempts, requests,
                   fetchCalls, errs, slept, out, result, parsed, doc>>
Acquire(c) ==
    /\ pc[c] = "wait_sem"
    /\ waiters # <<>> /\ Head(waiters) = c
    /\ ~Locked
    /\ sem' = sem - 1
    /\ waiters' = Tail(waiters)
    /\ pc' = [pc EXCEPT ![c] = FirstStep]
    /\ UNCHANGED <<kind, runVars, lifeVars, pages, url, calledIn, attempts, requests,
                   fetchCalls, errs, slept, out, result, parsed, doc>>

\* HttpFetcher: `async with session.get(url, ...) as resp`
Get(c) ==
    /\ pc[c] = "get"
    /\ requests' = [requests EXCEPT ![c] = @ + 1]
    /\ \E o \in (IF "session" \notin live THEN {Err("SessionClosed")}
                 ELSE IF url[c] = BadUrl THEN {Err("InvalidURL")}
                 ELSE {Err("ClientError"), Err("TimeoutError")} \cup Responses) :
          IF o.t = "resp"
          THEN /\ out' = [out EXCEPT ![c] = o]
               /\ pc' = [pc EXCEPT ![c] = "read"]
               /\ UNCHANGED <<sem, errs, slept, result, doc>>
          ELSE ReleaseAndFinish(c, o)
    /\ UNCHANGED <<kind, runVars, lifeVars, waiters, pages, url, calledIn, attempts,
                   fetchCalls, parsed>>

\* HttpFetcher: `text = await resp.text(errors="ignore")`, then the response is
\* returned and both `async with` blocks are left.
Read(c) ==
    /\ pc[c] = "read"
    /\ \E o \in {Err("ClientError"), Err("TimeoutError")}
                \cup {Resp(out[c].url, out[c].status, b) : b \in FetchBodies} :
          ReleaseAndFinish(c, o)
    /\ UNCHANGED <<kind, runVars, lifeVars, waiters, pages, url, calledIn, attempts,
                   requests, fetchCalls, parsed>>

\* BrowserFetcher: `page = await context.new_page()`; it is outside the try, so
\* when it raises the permit is released with no page to close.
NewPage(c) ==
    /\ pc[c] = "new_page"
    /\ requests' = [requests EXCEPT ![c] = @ + 1]
    /\ IF "context" \in live
       THEN \/ /\ pages' = pages \cup {c}
               /\ pc' = [pc EXCEPT ![c] = "goto"]
               /\ UNCHANGED <<sem, out, errs, slept, result, doc>>
            \/ /\ ReleaseAndFinish(c, Err("PlaywrightError"))
               /\ UNCHANGED pages
       ELSE /\ ReleaseAndFinish(c, Err("TargetClosed"))
            /\ UNCHANGED pages
    /\ UNCHANGED <<kind, runVars, lifeVars, waiters, url, calledIn, attempts, fetchCalls,
                   parsed>>

\* BrowserFetcher: `response = await page.goto(...)` and `if not response: raise`
GotoMutant(c) ==
    /\ pc[c] = "goto"
    /\ \E o \in (IF c \notin pages THEN {Err("TargetClosed")}
                 ELSE IF url[c] = BadUrl THEN {Err("PlaywrightError")}
                 ELSE {Err("PlaywrightError"), Err("TimeoutError"), Err("NoResponse")}
                      \cup Responses) :
          /\ out' = [out EXCEPT ![c] = o]
          /\ pc' = [pc EXCEPT ![c] = IF o.t = "resp" THEN "content" ELSE "close_page"]
          /\ pages' = IF o.t = "resp" THEN pages ELSE pages \cap {c}
    /\ UNCHANGED <<kind, runVars, lifeVars, sem, waiters, url, calledIn, attempts,
                   requests, fetchCalls, errs, slept, result, parsed, doc>>
Goto(c) ==
    /\ pc[c] = "goto"
    /\ \E o \in (IF c \notin pages THEN {Err("TargetClosed")}
                 ELSE IF url[c] = BadUrl THEN {Err("PlaywrightError")}
                 ELSE {Err("PlaywrightError"), Err("TimeoutError"), Err("NoResponse")}
                      \cup Responses) :
          /\ out' = [out EXCEPT ![c] = o]
          /\ pc' = [pc EXCEPT ![c] = IF o.t = "resp" THEN "content" ELSE "close_page"]
    /\ UNCHANGED <<kind, runVars, lifeVars, sem, waiters, pages, url, calledIn, attempts,
                   requests, fetchCalls, errs, slept, result, parsed, doc>>

\* BrowserFetcher: `await page.wait_for_timeout(2000)`, `await page.content()` and
\* the construction of the BrowserResponse
Content(c) ==
    /\ pc[c] = "content"
    /\ \E o \in (IF c \notin pages THEN {Err("TargetClosed")}
                 ELSE {Err("PlaywrightError")}
                      \cup {Resp(out[c].url, out[c].status, b) : b \in FetchBodies}) :
          out' = [out EXCEPT ![c] = o]
    /\ pc' = [pc EXCEPT ![c] = "close_page"]
    /\ UNCHANGED <<kind, runVars, lifeVars, sem, waiters, pages, url, calledIn, attempts,
                   requests, fetchCalls, errs, slept, result, parsed, doc>>

\* BrowserFetcher: `finally: await page.close()`, reached from the return and
\* from every exception raised inside the try
ClosePageMutant(c) ==
    /\ pc[c] = "close_page"
    /\ pages' = IF out[c].t = "resp" THEN pages \ {c} ELSE pages
    /\ pc' = [pc EXCEPT ![c] = "release"]
    /\ UNCHANGED <<kind, runVars, lifeVars, sem, waiters, url, calledIn, attempts, requests,
                   fetchCalls, errs, slept, out, result, parsed, doc>>
ClosePage(c) ==
    /\ pc[c] = "close_page"
    /\ pages' = pages \ {c}
    /\ pc' = [pc EXCEPT ![c] = "release"]
    /\ UNCHANGED <<kind, runVars, lifeVars, sem, waiters, url, calledIn, attempts, requests,
                   fetchCalls, errs, slept, out, result, parsed, doc>>

\* BrowserFetcher: page.close() has returned; `async with self._sem` is left
Release(c) ==
    /\ pc[c] = "release"
    /\ ReleaseAndFinish(c, out[c])
    /\ UNCHANGED <<kind, runVars, lifeVars, waiters, pages, url, calledIn, attempts,
                   requests, fetchCalls, parsed>>

\* tenacity's sleep between two attempts is over
Backoff(c) ==
    /\ pc[c] = "backoff"
    /\ pc' = [pc EXCEPT ![c] = "attempt"]
    /\ UNCHANGED <<kind, runVars, lifeVars, sem, waiters, pages, url, calledIn, attempts,
                   requests, fetchCalls, errs, slept, out, result, parsed, doc>>

(* ------------------------ MediumExtractor.extract ---------------------- *)

\* extract after fetch_text returned: the status check, then the parse
ExtractMutant(c) ==
    /\ pc[c] = "extract"
    /\ IF IsErrorStatus(result[c].status)
       THEN /\ pc' = [pc EXCEPT ![c] = "attempt"]
            /\ attempts' = [attempts EXCEPT ![c] = 0]
            /\ fetchCalls' = [fetchCalls EXCEPT ![c] = @ + 1]
            /\ UNCHANGED <<parsed, doc>>
       ELSE /\ parsed' = [parsed EXCEPT ![c] = ExtractFrom(result[c]).parsed]
            /\ doc' = [doc EXCEPT ![c] = ExtractFrom(result[c]).doc]
            /\ pc' = [pc EXCEPT ![c] = "done"]
            /\ UNCHANGED <<attempts, fetchCalls>>
    /\ UNCHANGED <<kind, runVars, lifeVars, sem, waiters, pages, url, calledIn, requests,
                   errs, slept, out, result>>
Extract(c) ==
    /\ pc[c] = "extract"
    /\ parsed' = [parsed EXCEPT ![c] = ExtractFrom(result[c]).parsed]
    /\ doc' = [doc EXCEPT ![c] = ExtractFrom(result[c]).doc]
    /\ pc' = [pc EXCEPT ![c] = "done"]
    /\ UNCHANGED <<kind, runVars, lifeVars, sem, waiters, pages, url, calledIn, attempts,
                   requests, fetchCalls, errs, slept, out, result>>

(* ---------------------------- specification --------------------------- *)

Next ==
    \/ HttpEnter
    \/ EnterPlaywright
    \/ EnterLaunch
    \/ EnterNewContext
    \/ ExitBegin
    \/ ExitSessionClose
    \/ ExitSessionSet
    \/ ExitContextClose
    \/ ExitContextSet
    \/ ExitBrowserClose
    \/ ExitBrowserSet
    \/ ExitPlaywrightStop
    \/ ExitPlaywrightSet
    \/ \E c \in Calls : Issue(c)
    \/ \E c \in Calls : AttemptBegin(c)
    \/ \E c \in Calls : Acquire(c)
    \/ \E c \in Calls : Get(c)
    \/ \E c \in Calls : Read(c)
    \/ \E c \in Calls : NewPage(c)
    \/ \E c \in Calls : Goto(c)
    \/ \E c \in Calls : Content(c)
    \/ \E c \in Calls : ClosePage(c)
    \/ \E c \in Calls : Release(c)
    \/ \E c \in Calls : Backoff(c)
    \/ \E c \in Calls : Extract(c)

Spec == Init /\ [][Next]_vars

(* ------------------- a pool as large as the burst ---------------------- *)

\* A fetcher constructed with max_concurrency = NumCalls: every call of the burst
\* can hold a permit at the same time (the default pools, 10 and 5, are larger
\* than the burst).
InitWide ==
    /\ kind \in {"http", "browser"}
    /\ life = "new"
    /\ session = FALSE
    /\ playwright = FALSE
    /\ browser = FALSE
    /\ context = FALSE
    /\ live = {}
    /\ closeCalls = <<>>
    /\ sem = NumCalls
    /\ waiters = <<>>
    /\ pages = {}
    /\ pc = [c \in Calls |-> "idle"]
    /\ url = [c \in Calls |-> GoodUrl]
    /\ calledIn = [c \in Calls |-> "none"]
    /\ attempts = [c \in Calls |-> 0]
    /\ requests = [c \in Calls |-> 0]
    /\ fetchCalls = [c \in Calls |-> 0]
    /\ errs = [c \in Calls |-> <<>>]
    /\ slept = [c \in Calls |-> <<>>]
    /\ out = [c \in Calls |-> NoOutcome]
    /\ result = [c \in Calls |-> NoOutcome]
    /\ parsed = [c \in Calls |-> FALSE]
    /\ doc = [c \in Calls |-> NoDoc]
    /\ NoRun

\* No call ever waits for a permit, so Acquire is not among the steps.
NextWide ==
    \/ HttpEnter
    \/ EnterPlaywright
    \/ EnterLaunch
    \/ EnterNewContext
    \/ ExitBegin
    \/ ExitSessionClose
    \/ ExitSessionSet
    \/ ExitContextClose
    \/ ExitContextSet
    \/ ExitBrowserClose
    \/ ExitBrowserSet
    \/ ExitPlaywrightStop
    \/ ExitPlaywrightSet
    \/ \E c \in Calls : Issue(c)
    \/ \E c \in Calls : AttemptBegin(c)
    \/ \E c \in Calls : Get(c)
    \/ \E c \in Calls : Read(c)
    \/ \E c \in Calls : NewPage(c)
    \/ \E c \in Calls : Goto(c)
    \/ \E c \in Calls : Content(c)
    \/ \E c \in Calls : ClosePage(c)
    \/ \E c \in Calls : Release(c)
    \/ \E c \in Calls : Backoff(c)
    \/ \E c \in Calls : Extract(c)

SpecWide == InitWide /\ [][NextWide]_vars

(* ---------------------- a burst on a started fetcher ------------------- *)

\* The fetcher has been started (inside `async with`) and is not torn down while
\* the burst runs.
InitLive ==
    /\ kind \in {"http", "browser"}
    /\ life = "started"
    /\ session = (kind = "http")
    /\ playwright = (kind = "browser")
    /\ browser = (kind = "browser")
    /\ context = (kind = "browser")
    /\ live = IF kind = "http" THEN {"session"} ELSE {"playwright", "browser", "context"}
    /\ closeCalls = <<>>
    /\ sem = MaxConcurrency
    /\ waiters = <<>>
    /\ pages = {}
    /\ pc = [c \in Calls |-> "idle"]
    /\ url = [c \in Calls |-> GoodUrl]
    /\ calledIn = [c \in Calls |-> "none"]
    /\ attempts = [c \in Calls |-> 0]
    /\ requests = [c \in Calls |-> 0]
    /\ fetchCalls = [c \in Calls |-> 0]
    /\ errs = [c \in Calls |-> <<>>]
    /\ slept = [c \in Calls |-> <<>>]
    /\ out = [c \in Calls |-> NoOutcome]
    /\ result = [c \in Calls |-> NoOutcome]
    /\ parsed = [c \in Calls |-> FALSE]
    /\ doc = [c \in Calls |-> NoDoc]
    /\ NoRun

\* The steps of the task that runs call c once it has been issued.
CallStep(c) ==
    \/ AttemptBegin(c)
    \/ Acquire(c)
    \/ Get(c)
    \/ Read(c)
    \/ NewPage(c)
    \/ Goto(c)
    \/ Content(c)
    \/ ClosePage(c)
    \/ Release(c)
    \/ Backoff(c)
    \/ Extract(c)

NextLive ==
    \/ \E c \in Calls : Issue(c)
    \/ \E c \in Calls : AttemptBegin(c)
    \/ \E c \in Calls : Acquire(c)
    \/ \E c \in Calls : Get(c)
    \/ \E c \in Calls : Read(c)
    \/ \E c \in Calls : NewPage(c)
    \/ \E c \in Calls : Goto(c)
    \/ \E c \in Calls : Content(c)
    \/ \E c \in Calls : ClosePage(c)
    \/ \E c \in Calls : Release(c)
    \/ \E c \in Calls : Backoff(c)
    \/ \E c \in Calls : Extract(c)

\* The event loop runs every task that is ready, every awaited transport
\* operation and every sleep ends: a call whose next step stays possible takes it.
SpecLive == InitLive /\ [][NextLive]_vars /\ \A c \in Calls : WF_vars(CallStep(c))

(* ------------------- extraction over bounded HTML pages ---------------- *)

\* Texts of exactly k characters.
Str(k) == [1..k -> Chars]

\* Elements whose text nodes (at most two) hold exactly k characters in all.
ElemsOfSize(k) ==
    (IF k = 0 THEN {<<>>} ELSE {<<x>> : x \in Str(k)})
    \cup UNION {{<<x, y>> : x \in Str(i), y \in Str(k - i)} : i \in 1..(k - 1)}

\* Heading lists: up to two <h1> holding exactly k characters in all.
H1Lists(k) ==
    (IF k = 0 THEN {<<>>} ELSE {})
    \cup {<<e>> : e \in ElemsOfSize(k)}
    \cup UNION {{<<e, f>> : e \in ElemsOfSize(i), f \in ElemsOfSize(k - i)} : i \in 0..k}

\* An optional <title> holding exactly k characters.
Titles(k) ==
    (IF k = 0 THEN {<<>>} ELSE {}) \cup {<<e>> : e \in ElemsOfSize(k)}

\* A <p> holding exactly k characters; inside the first <article> or not when
\* the page has one.
Paras(k, article) ==
    {[inArticle |-> a, nodes |-> e] :
        a \in (IF article THEN BOOLEAN ELSE {FALSE}), e \in ElemsOfSize(k)}

\* Paragraph lists: up to two <p> holding exactly k characters in all.
ParaLists(k, article) ==
    (IF k = 0 THEN {<<>>} ELSE {})
    \cup {<<x>> : x \in Paras(k, article)}
    \cup UNION {{<<x, y>> : x \in Paras(i, article), y \in Paras(k - i, article)} :
                i \in 0..k}

ExtractStatuses == {200, 301, 399, 400, 404, 500}

\* fetch_text has returned r to the first call.
Returned(r) == result = [c \in Calls |-> IF c = 1 THEN r ELSE NoOutcome]

\* The responses extract is applied to: every status with two sample pages; and,
\* with status 200, the pages that vary the headings and the <title>
\* (MaxTitleChars characters in all) and those that vary the paragraphs
\* (MaxParaChars characters in all).
ExtractInput ==
    \/ \E u \in {GoodUrl, RedirectedUrl} : \E s \in ExtractStatuses :
           \E b \in {EmptyPage, SamplePage} : Returned(Resp(u, s, b))
    \/ \E i \in 0..MaxTitleChars : \E j \in 0..(MaxTitleChars - i) :
           \E h \in H1Lists(i) : \E t \in Titles(j) :
               Returned(Resp(RedirectedUrl, 200,
                             [h1s |-> h, title |-> t, article |-> FALSE, ps |-> <<>>]))
    \/ \E k \in 0..MaxParaChars : \E a \in BOOLEAN : \E p \in ParaLists(k, a) :
           Returned(Resp(RedirectedUrl, 200,
                         [h1s |-> <<>>, title |-> <<>>, article |-> a, ps |-> p]))

\* The state in which the first call's fetch_text has just returned a response
\* to extract, on a started BrowserFetcher.
InitExtract ==
    /\ kind = "browser"
    /\ life = "started"
    /\ session = FALSE
    /\ playwright = TRUE
    /\ browser = TRUE
    /\ context = TRUE
    /\ live = {"playwright", "browser", "context"}
    /\ closeCalls = <<>>
    /\ sem = MaxConcurrency
    /\ waiters = <<>>
    /\ pages = {}
    /\ pc = [c \in Calls |-> IF c = 1 THEN "extract" ELSE "idle"]
    /\ url = [c \in Calls |-> GoodUrl]
    /\ calledIn = [c \in Calls |-> IF c = 1 THEN "started" ELSE "none"]
    /\ attempts = [c \in Calls |-> IF c = 1 THEN 1 ELSE 0]
    /\ requests = [c \in Calls |-> IF c = 1 THEN 1 ELSE 0]
    /\ fetchCalls = [c \in Calls |-> IF c = 1 THEN 1 ELSE 0]
    /\ errs = [c \in Calls |-> <<>>]
    /\ slept = [c \in Calls |-> <<>>]
    /\ out = [c \in Calls |-> NoOutcome]
    /\ ExtractInput
    /\ parsed = [c \in Calls |-> FALSE]
    /\ doc = [c \in Calls |-> NoDoc]
    /\ NoRun

NextExtract == \E c \in Calls : Extract(c)

SpecExtract == InitExtract /\ [][NextExtract]_vars

(* ------------------------------- run(url) ------------------------------ *)

\* `async with BrowserFetcher() as fetcher` when __aenter__ raised: the exception
\* leaves run at once; the body and __aexit__ are not run.
RunEnterFailed ==
    /\ runPc = "start" /\ life = "enter_failed"
    /\ raised' = Raised("PlaywrightError", 0, <<>>)
    /\ runPc' = "failed"
    /\ UNCHANGED <<kind, lifeVars, sem, waiters, pages, callVars, runUrl, parts, extractor,
                   pending, emitted>>

\* `extractor = pick_extractor(url, fetcher)`, then `extractor.extract(url)` up to
\* its fetch_text call; a ValueError of pick_extractor leaves the body, which
\* enters __aexit__.
RunRoute ==
    /\ runPc = "start" /\ life = "started"
    /\ extractor' = pick_extractor(runUrl)
    /\ IF extractor'.t = "extractor"
       THEN /\ url' = [url EXCEPT ![1] = runUrl]
            /\ fetchCalls' = [fetchCalls EXCEPT ![1] = @ + 1]
            /\ pc' = [pc EXCEPT ![1] = "attempt"]
            /\ runPc' = "extract"
            /\ UNCHANGED <<life, pending>>
       ELSE /\ pending' = Raised("UnroutableHost", 0, extractor'.host)
            /\ runPc' = "exit"
            /\ life' = "exit_context"
            /\ UNCHANGED <<url, fetchCalls, pc>>
    /\ UNCHANGED <<kind, session, playwright, browser, context, live, closeCalls, sem, waiters,
                   pages, calledIn, attempts, requests, errs, slept, out, result, parsed, doc,
                   runUrl, parts, raised, emitted>>

\* extract has returned or raised.  A document is written to the file (a failure
\* to write is logged and swallowed) and printed; an exception leaves the body.
\* Either way __aexit__ is entered.
RunEmit ==
    /\ runPc = "extract" /\ pc[1] = "done"
    /\ IF doc[1].t = "doc"
       THEN /\ \E saved \in BOOLEAN :
                   emitted' = (IF saved THEN {"file"} ELSE {}) \cup {"stdout"}
            /\ UNCHANGED pending
       ELSE /\ pending' = doc[1]
            /\ UNCHANGED emitted
    /\ runPc' = "exit"
    /\ life' = "exit_context"
    /\ UNCHANGED <<kind, session, playwright, browser, context, live, closeCalls, sem, waiters,
                   pages, callVars, runUrl, parts, extractor, raised>>

\* __aexit__ is over.  It returns None, so the exception that left the body is
\* raised again; an exception of __aexit__ itself is raised in its place.
RunEnd ==
    /\ runPc = "exit" /\ life \in {"closed", "exit_failed"}
    /\ IF life = "exit_failed"
       THEN /\ raised' = Raised("PlaywrightError", 0, <<>>)
            /\ runPc' = "failed"
       ELSE /\ raised' = pending
            /\ runPc' = IF pending.t = "raised" THEN "failed" ELSE "returned"
    /\ UNCHANGED <<kind, lifeVars, sem, waiters, pages, callVars, runUrl, parts, extractor,
                   pending, emitted>>

NextRun ==
    \/ EnterPlaywright
    \/ EnterLaunch
    \/ EnterNewContext
    \/ RunEnterFailed
    \/ RunRoute
    \/ \E c \in Calls : AttemptBegin(c)
    \/ \E c \in Calls : NewPage(c)
    \/ \E c \in Calls : Goto(c)
    \/ \E c \in Calls : Content(c)
    \/ \E c \in Calls : ClosePage(c)
    \/ \E c \in Calls : Release(c)
    \/ \E c \in Calls : Backoff(c)
    \/ \E c \in Calls : Extract(c)
    \/ RunEmit
    \/ ExitContextClose
    \/ ExitContextSet
    \/ ExitBrowserClose
    \/ ExitBrowserSet
    \/ ExitPlaywrightStop
    \/ ExitPlaywrightSet
    \/ RunEnd

\* The characters hosts are written with: runs of letters and the dot.
HostChars == {"medium", "Medium", "genesysoftwares", ".", "com"}

\* Hosts of at most MaxHostLen characters.
Hosts == UNION {[1..n -> HostChars] : n \in 0..MaxHostLen}

\* Text that names a routed host, for the components that are not the host.
Decoy == <<"medium", ".", "com">>

\* The urls run is given: the one of main, an https url with any host, and one
\* with no host.
RunInput ==
    \/ parts = [NoParts EXCEPT !.scheme = <<"https">>, !.authority = TRUE,
                               !.host = <<"genesysoftwares", ".", "com">>,
                               !.path = <<"/", "blogs">>, !.fragment = <<"1">>]
    \/ \E h \in Hosts :
           parts = [NoParts EXCEPT !.scheme = <<"https">>, !.authority = TRUE, !.host = h,
                                   !.path = <<"/">> \o Decoy, !.query = Decoy]
    \/ parts = [NoParts EXCEPT !.path = BadUrl]

\* run(url) is called: a BrowserFetcher is constructed and not yet started.
InitRun ==
    /\ kind = "browser"
    /\ life = "new"
    /\ session = FALSE
    /\ playwright = FALSE
    /\ browser = FALSE
    /\ context = FALSE
    /\ live = {}
    /\ closeCalls = <<>>
    /\ sem = MaxConcurrency
    /\ waiters = <<>>
    /\ pages = {}
    /\ pc = [c \in Calls |-> "idle"]
    /\ url = [c \in Calls |-> GoodUrl]
    /\ calledIn = [c \in Calls |-> "none"]
    /\ attempts = [c \in Calls |-> 0]
    /\ requests = [c \in Calls |-> 0]
    /\ fetchCalls = [c \in Calls |-> 0]
    /\ errs = [c \in Calls |-> <<>>]
    /\ slept = [c \in Calls |-> <<>>]
    /\ out = [c \in Calls |-> NoOutcome]
    /\ result = [c \in Calls |-> NoOutcome]
    /\ parsed = [c \in Calls |-> FALSE]
    /\ doc = [c \in Calls |-> NoDoc]
    /\ runPc = "start"
    /\ RunInput
    /\ runUrl = UrlString(parts)
    /\ extractor = NoExtractor
    /\ pending = NoDoc
    /\ raised = NoDoc
    /\ emitted = {}

SpecRun == InitRun /\ [][NextRun]_vars

(* --------------------------- routing over urls ------------------------- *)

\* pick_extractor is about to be called with the url of some components: any
\* host, with or without scheme, credentials, port, path, query and fragment; or
\* no authority at all.
RouteInput ==
    \/ \E h \in Hosts : \E sc \in {<<>>, <<"http">>, <<"https">>} :
           \E ui \in {<<>>, Decoy} : \E po \in {<<>>, <<"8080">>} :
               \E pa \in {<<>>, <<"/">> \o Decoy} : \E qu, fr \in {<<>>, Decoy} :
                   parts = [scheme |-> sc, authority |-> TRUE, userinfo |-> ui, host |-> h,
                            port |-> po, path |-> pa, query |-> qu, fragment |-> fr]
    \/ \E sc \in {<<>>, <<"http">>, <<"https">>} :
           \E pa \in {<<>>, Decoy, <<"/">> \o Decoy, BadUrl} : \E qu, fr \in {<<>>, Decoy} :
               parts = [NoParts EXCEPT !.scheme = sc, !.path = pa, !.query = qu,
                                       !.fragment = fr]

\* The state in which run, on a started BrowserFetcher, is about to route.
InitRoute ==
    /\ kind = "browser"
    /\ life = "started"
    /\ session = FALSE
    /\ playwright = TRUE
    /\ browser = TRUE
    /\ context = TRUE
    /\ live = {"playwright", "browser", "context"}
    /\ closeCalls = <<>>
    /\ sem = MaxConcurrency
    /\ waiters = <<>>
    /\ pages = {}
    /\ pc = [c \in Calls |-> "idle"]
    /\ url = [c \in Calls |-> GoodUrl]
    /\ calledIn = [c \in Calls |-> "none"]
    /\ attempts = [c \in Calls |-> 0]
    /\ requests = [c \in Calls |-> 0]
    /\ fetchCalls = [c \in Calls |-> 0]
    /\ errs = [c \in Calls |-> <<>>]
    /\ slept = [c \in Calls |-> <<>>]
    /\ out = [c \in Calls |-> NoOutcome]
    /\ result = [c \in Calls |-> NoOutcome]
    /\ parsed = [c \in Calls |-> FALSE]
    /\ doc = [c \in Calls |-> NoDoc]
    /\ runPc = "start"
    /\ RouteInput
    /\ runUrl = UrlString(parts)
    /\ extractor = NoExtractor
    /\ pending = NoDoc
    /\ raised = NoDoc
    /\ emitted = {}

NextRoute == RunRoute

SpecRoute == InitRoute /\ [][NextRoute]_vars

(* ------------------------------- claims -------------------------------- *)

\* Calls between permit acquisition and permit release.
InFlight == {c \in Calls : pc[c] \in Holding}

\* C1: with max_concurrency = N, in every reachable state and for either
\* fetcher, at most N attempts are between permit acquisition and permit
\* release, whatever the burst and the mix of successes, failures and retries.
C1_AtMostNInFlight == Cardinality(InFlight) <= MaxConcurrency

\* C1 witness: the pool is exhausted by an attempt that is a retry, while
\* another call of the burst waits for a permit.
C1_Witness ==
    /\ Cardinality(InFlight) = MaxConcurrency
    /\ \E c \in InFlight : errs[c] # <<>>
    /\ \E c \in Calls : pc[c] = "wait_sem"

\* Every attempt of call c so far failed with the exception e.
AllFailedWith(c, e) ==
    /\ errs[c] # <<>>
    /\ Len(errs[c]) = attempts[c]
    /\ \A i \in 1..Len(errs[c]) : errs[c][i] = e

\* The exceptions each fetcher's retry policy retries, as the policy's text
\* names them.
RetriedErrors ==
    IF kind = "http" THEN {"ClientError", "InvalidURL", "TimeoutError"}
    ELSE {"NotStarted", "PlaywrightError", "TargetClosed", "TimeoutError", "NoResponse"}

\* C2: when every attempt of a call fails with the same retryable error, the
\* call makes exactly the configured number of attempts (3 for HttpFetcher, 2 for
\* BrowserFetcher), never more, and then fails with that same error, not wrapped.
C2_ExactAttemptsThenOriginalError ==
    \A c \in Calls :
        /\ attempts[c] <= (IF kind = "http" THEN 3 ELSE 2)
        /\ \A e \in RetriedErrors :
               (pc[c] = "done" /\ AllFailedWith(c, e)) =>
                   /\ attempts[c] = (IF kind = "http" THEN 3 ELSE 2)
                   /\ result[c] = Err(e)

\* C2 witness: an HttpFetcher call that failed after three attempts, each of
\* which timed out.
C2_Witness ==
    \E c \in Calls :
        /\ kind = "http" /\ pc[c] = "done"
        /\ errs[c] = <<"TimeoutError", "TimeoutError", "TimeoutError">>
        /\ result[c] = Err("TimeoutError")

\* The failures the claim calls non-transient: neither a network-layer error nor
\* a timeout (a malformed URL, the not-started error, a closed session).
NonTransientFailures == {"InvalidURL", "NotStarted", "SessionClosed"}

\* C3: in HttpFetcher.fetch_text an attempt that fails with a non-transient
\* failure (malformed URL, not-started, ...) is the call's last: no backoff and
\* no further attempt follow it, and the call has failed with that failure.
C3_NonTransientEndsCall ==
    kind = "http" =>
        \A c \in Calls : \A i \in 1..Len(errs[c]) :
            errs[c][i] \in NonTransientFailures =>
                /\ i = Len(errs[c])
                /\ pc[c] = "done"
                /\ result[c] = Err(errs[c][i])

\* C4: a call that begins on a fetcher never started (__aenter__ not yet run) or
\* torn down (__aexit__ completed) fails with the not-started error, and never
\* waits for or holds a permit, issues a request or opens a page.
C4_NotStartedIsFatal ==
    \A c \in Calls :
        calledIn[c] \in {"new", "closed"} =>
            /\ requests[c] = 0
            /\ pc[c] \notin Holding \cup {"wait_sem"}
            /\ pc[c] = "done" => result[c] = Err("NotStarted")

\* C5: a page opened by a BrowserFetcher attempt is closed before the attempt
\* releases its permit, on every outcome; once every issued call has returned or
\* failed, the shared context holds no open page.
C5_PageClosedBeforeRelease ==
    /\ \A c \in pages : pc[c] \in {"goto", "content", "close_page"}
    /\ (\A c \in Calls : pc[c] \in {"idle", "done"}) => pages = {}

\* C5 witness: an attempt opened a page, navigation returned no response, and
\* the attempt is about to release its permit.
C5_Witness ==
    \E c \in Calls : pc[c] = "release" /\ out[c] = Err("NoResponse") /\ requests[c] > 0

\* The close()/stop() calls made by __aexit__, as a set.
Closed == {closeCalls[i] : i \in 1..Len(closeCalls)}

\* C6: BrowserFetcher teardown releases context, then browser, then engine, each
\* step independently: once __aexit__ is over (returned or raised), the release
\* step of every handle that is still set has been performed, in that order.
C6_TeardownStepsIndependent ==
    (kind = "browser" /\ life \in {"closed", "exit_failed"}) =>
        /\ context => "context" \in Closed
        /\ browser => "browser" \in Closed
        /\ playwright => "playwright" \in Closed
        /\ \A i, j \in 1..Len(closeCalls) :
               i < j => <<closeCalls[i], closeCalls[j]>> \in
                            {<<"context", "browser">>, <<"context", "playwright">>,
                             <<"browser", "playwright">>}

\* C7: when fetch_text returned a response with status >= 400, extract fails with
\* the upstream error carrying that status and the response's (post-redirect)
\* URL, and runs no HTML parsing; it returns a document only for status < 400.
C7_UpstreamErrorOnStatus ==
    \A c \in Calls :
        (pc[c] = "done" /\ result[c].t = "resp") =>
            IF result[c].status >= 400
            THEN /\ doc[c] = Raised("UpstreamError", result[c].status, result[c].url)
                 /\ ~parsed[c]
            ELSE doc[c].t = "doc"

\* C7 witness: extract failed on a redirected response with status 400.
C7_Witness ==
    \E c \in Calls :
        /\ pc[c] = "done" /\ result[c].status = 400 /\ result[c].url # url[c]
        /\ doc[c].t = "raised" /\ doc[c].url = RedirectedUrl /\ doc[c].status = 400

\* C8: one extract call invokes fetch_text exactly once whatever the outcome, so
\* the transport operations made for it never exceed the fetcher's attempt limit.
C8_ExtractFetchesOnce ==
    Via = "extract" =>
        \A c \in Calls :
            /\ fetchCalls[c] = (IF pc[c] = "idle" THEN 0 ELSE 1)
            /\ requests[c] <= BrowserAttempts

\* C8 witness: an extract call whose fetch failed once, was retried by the
\* fetcher, and ended in the upstream error.
C8_Witness ==
    \E c \in Calls :
        /\ Via = "extract" /\ pc[c] = "done"
        /\ doc[c].err = "UpstreamError" /\ requests[c] = 2 /\ fetchCalls[c] = 1

\* An element holds a character that is not whitespace.
HasText(nodes) ==
    \E i \in 1..Len(nodes) : \E j \in 1..Len(nodes[i]) : nodes[i][j] \notin Whitespace

\* C9: the title of every document extract returns is not the empty string; when
\* no <h1> and no <title> of the page has text, it is the placeholder.
C9_TitleNeverEmpty ==
    \A c \in Calls :
        doc[c].t = "doc" =>
            /\ doc[c].title # <<>>
            /\ LET page == result[c].body
               IN  ((\A i \in 1..Len(page.h1s) : ~HasText(page.h1s[i]))
                    /\ (\A i \in 1..Len(page.title) : ~HasText(page.title[i])))
                   => doc[c].title = <<"(untitled)">>

\* C9 witness: a page whose <h1> and <title> are both whitespace-only got the
\* placeholder title.
C9_Witness ==
    \E c \in Calls :
        /\ doc[c].t = "doc" /\ doc[c].title = <<"(untitled)">>
        /\ result[c].body.h1s = << << <<" ">> >> >>
        /\ result[c].body.title = << << <<"\n">> >> >>

\* C10: the text of every document extract returns has no blank line: it does
\* not start or end with a line break and holds no two line breaks in a row.
C10_NoBlankLine ==
    \A c \in Calls :
        (doc[c].t = "doc" /\ doc[c].text # <<>>) =>
            LET text == doc[c].text
            IN  /\ text[1] # "\n"
                /\ text[Len(text)] # "\n"
                /\ \A i \in 1..(Len(text) - 1) : ~(text[i] = "\n" /\ text[i + 1] = "\n")

\* The hostname of the url in hand, lowercased: the host its authority was
\* written with; none (the empty text) when it has no authority.
LoweredHost == IF parts.authority THEN Lower(parts.host) ELSE <<>>

\* The url made of the lowercased hostname alone.
HostOnlyUrl == UrlString([NoParts EXCEPT !.authority = parts.authority, !.host = LoweredHost])

\* C11: pick_extractor depends on the url's lowercased hostname only: every url
\* gets the outcome (extractor variant, or unroutable-host failure) of the url
\* made of its lowercased hostname alone, hence two urls with the same lowercased
\* hostname get the same outcome whatever their scheme, credentials, port,
\* path, query, fragment and letter case.
C11_RouteDependsOnHostOnly ==
    extractor.t # "none" => extractor = pick_extractor(HostOnlyUrl)

\* C11 witness: a url with mixed-case host, port, path, query and fragment was
\* routed to the extractor of medium.com.
C11_Witness ==
    /\ extractor = Extractor("MediumExtractor")
    /\ parts.host = <<"Medium", ".", "com">>
    /\ parts.scheme = <<"http">> /\ parts.port # <<>> /\ parts.path # <<>>
    /\ parts.query # <<>> /\ parts.fragment # <<>>

\* No entry of the routing table matches the lowercased hostname.
Unroutable == \A i \in 1..Len(RoutingTable) : ~Contains(LoweredHost, RoutingTable[i].needle)

\* C12: for a url whose lowercased hostname holds none of the routing table's
\* host substrings (or that has no hostname), pick_extractor fails with the
\* unroutable-host error, no extractor is constructed or called, the run makes
\* no fetch attempt and does not route again.
C12_UnroutableHostFails ==
    Unroutable =>
        /\ extractor.t # "extractor"
        /\ \A c \in Calls :
               pc[c] = "idle" /\ fetchCalls[c] = 0 /\ attempts[c] = 0 /\ requests[c] = 0
        /\ extractor.t = "raised" =>
               /\ extractor = UnroutableHost(LoweredHost)
               /\ runPc \in {"exit", "failed"}
               /\ pending = Raised("UnroutableHost", 0, LoweredHost)

\* C12 witness: run failed on a url whose path and query, not its host, name a
\* routed host.
C12_Witness ==
    /\ runPc = "failed" /\ extractor.t = "raised"
    /\ parts.host = <<"com", ".", "medium">> /\ parts.query = Decoy

\* C13: whenever routing or extraction failed in run(url), run ends by raising
\* that same failure to its caller, and no document is emitted: nothing is
\* printed or written unless extract returned a document.
C13_FailurePropagatesUnmodified ==
    /\ emitted # {} => (doc[1].t = "doc" /\ pending.t = "none")
    /\ (extractor.t = "raised" \/ doc[1].t = "raised") =>
           /\ emitted = {}
           /\ runPc # "returned"
           /\ runPc = "failed" =>
                  raised = (IF extractor.t = "raised"
                            THEN Raised("UnroutableHost", 0, extractor.host)
                            ELSE doc[1])

\* C14: on every exit path of run's `async with BrowserFetcher()` (normal
\* completion, routing failure, extraction failure, __aenter__ failing part-way),
\* when run has returned or failed no engine, browser or context is acquired.
C14_RunReleasesEveryHandle ==
    runPc \in {"returned", "failed"} => live = {}

\* Everything the fetcher and tenacity hold about call d.
CallState(d) ==
    <<pc[d], url[d], attempts[d], requests[d], errs[d], out[d], result[d], doc[d],
      d \in pages>>

\* An attempt of call c fails in this step: an awaited operation raises, or the
\* exception reaches tenacity.
AttemptFails(c) ==
    \/ out[c].t # "err" /\ out'[c].t = "err"
    \/ Len(errs'[c]) = Len(errs[c]) + 1

\* C15: with several calls in flight, a timeout or failure of one attempt affects
\* that call only: the step leaves every other call as it was (position, page,
\* attempt count, outcome), and once the exception has reached tenacity the
\* failing call is backing off for a retry or has failed.
C15_FailureAffectsOnlyThatCall ==
    [][\A c \in Calls :
           AttemptFails(c) =>
               /\ \A d \in Calls \ {c} : UNCHANGED CallState(d)
               /\ Len(errs'[c]) = Len(errs[c]) + 1 => pc'[c] \in {"backoff", "done"}]_vars

\* C15 witness: a navigation timed out and its call is backing off while another
\* call has its page open and its navigation answered.
C15_Witness ==
    \E c, d \in Calls :
        /\ c # d
        /\ pc[c] = "backoff" /\ errs[c] = <<"TimeoutError">>
        /\ pc[d] = "content" /\ d \in pages /\ attempts[d] = 1

\* C16: on a started fetcher with a burst larger than the pool, under fair
\* scheduling and terminating transport operations, every caller waiting for a
\* permit eventually holds one, every issued fetch_text call eventually returns
\* or fails, and the permits are all free again once the calls are over.
C16_EveryCallEnds ==
    /\ \A c \in Calls : (pc[c] = "wait_sem") ~> (pc[c] \in Holding)
    /\ \A c \in Calls : (fetchCalls[c] > 0) ~> (result[c].t # "none")
    /\ []((\A c \in Calls : pc[c] \in {"idle", "done"}) => sem = MaxConcurrency)

\* C16 witness: a caller waits for the only permit while its holder is about to
\* leave on the failure path of its last attempt.
C16_Witness ==
    \E c, d \in Calls :
        /\ pc[c] = "wait_sem" /\ Head(waiters) = c
        /\ pc[d] = "release" /\ out[d].t = "err" /\ attempts[d] = MaxAttempts(kind)

\* C17 as stated: both fetchers sleep min(6 s, 0.6 s * 2^(k-1)) before the k-th
\* retry: 0.6 s then 1.2 s for HttpFetcher, 0.6 s for BrowserFetcher.
C17_SameScheduleBothFetchers ==
    \A c \in Calls : \A k \in 1..Len(slept[c]) :
        slept[c][k] = Min(60, 6 * 2 ^ (k - 1))

\* C17 amended: HttpFetcher sleeps min(6 s, 0.6 s * 2^(k-1)) before the k-th
\* retry (0.6 s, then 1.2 s); BrowserFetcher sleeps min(10 s, 1 s * 2^(k-1)),
\* that is 1 s before its single retry.
C17_SchedulePerFetcher ==
    \A c \in Calls :
        /\ \A k \in 1..Len(slept[c]) :
               slept[c][k] = (IF kind = "http" THEN Min(60, 6 * 2 ^ (k - 1))
                              ELSE Min(100, 10 * 2 ^ (k - 1)))
        /\ pc[c] = "backoff" => Len(slept[c]) = attempts[c]
        /\ (pc[c] = "done" /\ kind = "http" /\ Len(errs[c]) = 3) => slept[c] = <<6, 12>>
        /\ (pc[c] = "done" /\ kind = "browser" /\ Len(errs[c]) = 2) => slept[c] = <<10>>

\* C17 witness: a BrowserFetcher call that slept 1 s before its single retry and
\* failed.
C17_Witness ==
    /\ kind = "browser"
    /\ \E c \in Calls : pc[c] = "done" /\ Len(errs[c]) = 2 /\ slept[c] = <<10>>

\* The text of an element, trimmed of surrounding whitespace.
TrimmedText(nodes) == Strip(Join(nodes, <<>>))

\* The <h1> of the page whose trimmed text is not empty, in document order.
NonEmptyH1s(page) == SelectSeq(page.h1s, LAMBDA h : TrimmedText(h) # <<>>)

\* C18: for a page with status < 400 the title is the trimmed text of the first
\* <h1> in document order whose trimmed text is not empty; the trimmed <title>
\* text only when no <h1> has text; the placeholder only when that is empty too.
C18_TitleIsFirstNonEmptyH1 ==
    \A c \in Calls :
        doc[c].t = "doc" =>
            LET page == result[c].body
            IN  doc[c].title =
                    (IF NonEmptyH1s(page) # <<>> THEN TrimmedText(NonEmptyH1s(page)[1])
                     ELSE IF page.title # <<>> /\ TrimmedText(page.title[1]) # <<>>
                          THEN TrimmedText(page.title[1])
                     ELSE <<"(untitled)">>)

\* C19: permit conservation: the free permits and the attempts holding one add
\* up to the pool size N; a call holds a permit only while an attempt of it is
\* executing, so with a call backing off, returned or failed, the permits not
\* held by executing attempts are free for the other callers.
C19_PermitConservation ==
    /\ sem >= 0
    /\ sem + Cardinality(InFlight) = MaxConcurrency
    /\ (\A c \in Calls : pc[c] \in {"idle", "attempt", "wait_sem", "backoff", "extract", "done"})
           => sem = MaxConcurrency

\* C19 witness: one call sleeps in backoff after a failed attempt while another
\* call holds the only permit on its first attempt.
C19_Witness ==
    \E c, d \in Calls :
        /\ pc[c] = "backoff" /\ errs[c] # <<>>
        /\ pc[d] \in Holding /\ attempts[d] = 1 /\ sem = 0

\* C20: when __aexit__ interleaves with fetch_text calls, no attempt creates a
\* page on a context that teardown has closed: an attempt that reaches page
\* creation after the context was closed opens no page and fails with the
\* not-started error, also when it had checked the context before teardown.
C20_NoPageAfterTeardown ==
    /\ [](pages # {} => "context" \in live)
    /\ [][\A c \in Calls :
              (pc[c] = "new_page" /\ "context" \notin live /\ pc'[c] # "new_page") =>
                  /\ c \notin pages'
                  /\ errs'[c] = Append(errs[c], "NotStarted")]_vars

====
